---- MODULE Spec2Model ----
(***************************************************************************)
(* is_image_or_video (ai-services/mafm/mafm/rag/C_library/utils.c): the    *)
(* media-extension classifier, modelled at the level of the bytes it reads.*)
(* A call scans the NUL-terminated filename for its last '.' (strrchr),    *)
(* then compares the bytes from that '.' with five string literals, one    *)
(* strcmp after the other, left to right with short-circuit.  The filename *)
(* is a non-null, NUL-terminated string; a null pointer is not modelled.   *)
(***************************************************************************)
EXTENDS Integers, Sequences, FiniteSets, TLC

VARIABLES
    filename,   \* the caller's string, as passed to the current call
    mem,        \* the bytes at `filename`: the characters, the terminator, what lies behind
    pc,         \* position of the call: idle, strrchr, test, strcmp, cond, done
    p,          \* strrchr: index of the byte being scanned
    last,       \* strrchr: index of the last '.' seen so far, 0 for NULL
    ext,        \* const char *ext: an index into mem, 0 for NULL
    k,          \* which strcmp of the || chain is being evaluated (0: none yet)
    j,          \* strcmp: offset of the byte pair being compared
    cmp,        \* the value the current strcmp returned
    ret,        \* the value in the return register
    hi,         \* highest index of mem read by the current call
    reads,      \* number of bytes of mem read by the current call
    memo        \* a remembered earlier call: its filename and its result

vars == <<filename, mem, pc, p, last, ext, k, j, cmp, ret, hi, reads, memo>>

----------------------------------------------------------------------------
(* Bounds of the model *)

\* longest run of leading characters put in front of an ending
MaxStem == 3
\* longest filename of the exhaustive family
MaxLen == 5

----------------------------------------------------------------------------
(* Characters and C strings *)

NUL == "NUL"
Dot == "."

\* the byte values strcmp subtracts (ASCII)
Ord(c) ==
    CASE c = NUL -> 0
      [] c = " " -> 32  [] c = "." -> 46  [] c = "/" -> 47
      [] c = "3" -> 51  [] c = "4" -> 52
      [] c = "A" -> 65  [] c = "G" -> 71  [] c = "I" -> 73  [] c = "J" -> 74
      [] c = "M" -> 77  [] c = "N" -> 78  [] c = "P" -> 80  [] c = "V" -> 86
      [] c = "a" -> 97  [] c = "e" -> 101 [] c = "g" -> 103 [] c = "i" -> 105
      [] c = "j" -> 106 [] c = "m" -> 109 [] c = "n" -> 110 [] c = "p" -> 112
      [] c = "v" -> 118 [] c = "x" -> 120

\* the bytes that follow the terminator in the caller's memory: not part of the string
Slack == <<".", "j", "p", "g", NUL>>

\* a string as it lies in memory
CString(s) == s \o <<NUL>> \o Slack

\* a variant of Literals: ".jpeg" written for ".jpg"
LiteralsTypo ==
    << <<".", "j", "p", "e", "g", NUL>>,
       <<".", "p", "n", "g", NUL>>,
       <<".", "m", "p", "4", NUL>>,
       <<".", "a", "v", "i", NUL>>,
       <<".", "m", "p", "3", NUL>> >>

\* the five literals of the comparison chain, in the order the code evaluates them
Literals ==
    << <<".", "j", "p", "g", NUL>>,
       <<".", "p", "n", "g", NUL>>,
       <<".", "m", "p", "4", NUL>>,
       <<".", "a", "v", "i", NUL>>,
       <<".", "m", "p", "3", NUL>> >>

NumExts == Len(Literals)

\* bytes of the longest literal, its terminator included
LiteralSize == CHOOSE n \in {Len(Literals[i]) : i \in 1..NumExts} :
                   \A i \in 1..NumExts : Len(Literals[i]) <= n

\* a variant of Literal: the last operand of the chain repeats the first
LiteralAgain(n) == Literals[IF n = NumExts THEN 1 ELSE n]

\* the literal the n-th strcmp of the chain is given
Literal(n) == Literals[n]

Max(a, b) == IF a >= b THEN a ELSE b

----------------------------------------------------------------------------
(* The filenames the calls are made with *)

SeqsUpTo(S, n) == UNION {[1..m -> S] : m \in 0..n}

Upper(c) ==
    CASE c = "j" -> "J" [] c = "p" -> "P" [] c = "g" -> "G" [] c = "n" -> "N"
      [] c = "m" -> "M" [] c = "a" -> "A" [] c = "v" -> "V" [] c = "i" -> "I"
      [] OTHER -> c

Lower(c) ==
    CASE c = "J" -> "j" [] c = "P" -> "p" [] c = "G" -> "g" [] c = "N" -> "n"
      [] c = "M" -> "m" [] c = "A" -> "a" [] c = "V" -> "v" [] c = "I" -> "i"
      [] OTHER -> c

\* the allow-list of media extensions
MediaExts ==
    { <<".", "j", "p", "g">>, <<".", "p", "n", "g">>, <<".", "m", "p", "4">>,
      <<".", "a", "v", "i">>, <<".", "m", "p", "3">> }

\* e with the letters at the positions U in upper case
CaseVariant(e, U) == [i \in 1..Len(e) |-> IF i \in U THEN Upper(e[i]) ELSE e[i]]

\* characters appended to, or put in place of the last character of, an extension
NearChars == {".", "/", " ", "e", "x", "g", "3", "4"}

\* endings near an allow-listed extension e: e itself, its prefixes, e without
\* its '.', its case variants, e with one more character, e with another last one
EndingsOf(e) ==
    {e}
    \cup {SubSeq(e, 1, n) : n \in 0..Len(e)}
    \cup {SubSeq(e, 2, Len(e))}
    \cup {CaseVariant(e, U) : U \in SUBSET (2..Len(e))}
    \cup {e \o <<c>> : c \in NearChars}
    \cup {SubSeq(e, 1, Len(e) - 1) \o <<c>> : c \in NearChars}

Endings == UNION {EndingsOf(e) : e \in MediaExts}

Stems == SeqsUpTo({"a", ".", "/"}, MaxStem)

\* what follows an extension that is not at the end of the name
Trailers == {<<"/">>, <<"/", "a">>, <<".">>, <<".", "a">>, <<"/", "a", ".">>, <<"a">>}

Names ==
    {s \o t : s \in Stems, t \in Endings}
    \cup {s \o e \o u : s \in Stems, e \in MediaExts, u \in Trailers}
    \cup SeqsUpTo({".", "j", "p", "g", "G"}, MaxLen)

\* the filenames of the runs that compare two calls
ProbeEndings ==
    { <<>>, <<".">>, <<"j", "p", "g">>,
      <<".", "j", "p", "g">>, <<".", "m", "p", "3">>, <<".", "J", "p", "g">>,
      <<".", "j", "p", "g", ".">>, <<".", "m", "p", "3", ".", "a">> }

ProbeNames == {s \o t : s \in SeqsUpTo({"a", "."}, MaxStem), t \in ProbeEndings}

NoMemo == [name |-> <<>>, ret |-> -1]

----------------------------------------------------------------------------
(* The call *)

Init ==
    /\ filename = <<>>
    /\ mem = CString(<<>>)
    /\ pc = "idle"
    /\ p = 0 /\ last = 0 /\ ext = 0 /\ k = 0 /\ j = 0 /\ cmp = 0
    /\ ret = 0
    /\ hi = 0 /\ reads = 0
    /\ memo = NoMemo

\* int is_image_or_video(const char* filename): the caller passes one of the
\* strings of S
Call(S) ==
    /\ pc = "idle"
    /\ \E f \in S :
          /\ filename' = f
          /\ mem' = CString(f)
    /\ pc' = "strrchr"
    /\ p' = 1 /\ last' = 0
    /\ ext' = 0 /\ k' = 0 /\ j' = 0 /\ cmp' = 0
    /\ hi' = 0 /\ reads' = 0
    /\ UNCHANGED <<ret, memo>>

\* a variant of ScanLast: the first '.' is kept (strchr)
ScanFirst(c, i, l) == IF c = Dot /\ l = 0 THEN i ELSE l

\* a variant of ScanLast: a '/' starts a new path component and drops the candidate
ScanLastBasename(c, i, l) == IF c = Dot THEN i ELSE IF c = "/" THEN 0 ELSE l

\* strrchr: the candidate after the byte c at index i has been looked at
ScanLast(c, i, l) == IF c = Dot THEN i ELSE l

\* a variant of ScanEnd: the first byte is not tested for the terminator
ScanEndAfterFirst(c, i) == c = NUL /\ i > 1

\* strrchr: the scan ends with the terminator, whatever its index i
ScanEnd(c, i) == c = NUL

\* const char *ext = strrchr(filename, '.'): one byte of the scan
ScanStep ==
    /\ pc = "strrchr"
    /\ LET c == mem[p]
           l == ScanLast(c, p, last)
       IN  /\ last' = l
           /\ hi' = Max(hi, p)
           /\ reads' = reads + 1
           /\ IF ScanEnd(c, p)
              THEN /\ ext' = l
                   /\ pc' = "test"
                   /\ p' = p
              ELSE /\ p' = p + 1
                   /\ UNCHANGED <<ext, pc>>
    /\ UNCHANGED <<filename, mem, k, j, cmp, ret, memo>>

\* a variant of NoExt: a missing extension is reported as an error
NoExtError ==
    /\ pc = "test"
    /\ ext = 0
    /\ ret' = -1
    /\ pc' = "done"
    /\ UNCHANGED <<filename, mem, p, last, ext, k, j, cmp, hi, reads, memo>>

\* a variant of NoExt: the branch returns without setting the value
NoExtStale ==
    /\ pc = "test"
    /\ ext = 0
    /\ pc' = "done"
    /\ UNCHANGED <<filename, mem, p, last, ext, k, j, cmp, ret, hi, reads, memo>>

\* if (!ext) { return 0; }
NoExt ==
    /\ pc = "test"
    /\ ext = 0
    /\ ret' = 0
    /\ pc' = "done"
    /\ UNCHANGED <<filename, mem, p, last, ext, k, j, cmp, hi, reads, memo>>

\* ext is not NULL: the first strcmp of the chain starts
HasExt ==
    /\ pc = "test"
    /\ ext # 0
    /\ k' = 1 /\ j' = 0
    /\ pc' = "strcmp"
    /\ UNCHANGED <<filename, mem, p, last, ext, cmp, ret, hi, reads, memo>>

\* a variant of ByteDiff: letter case is ignored (strcasecmp)
ByteDiffNoCase(a, b) == Ord(Lower(a)) - Ord(Lower(b))

\* strcmp: the difference of a byte pair, as unsigned char
ByteDiff(a, b) == Ord(a) - Ord(b)

\* a variant of CmpEnd: at most four bytes are compared (strncmp(ext, literal, 4))
CmpEndN(a, d, n) == d # 0 \/ a = NUL \/ n + 1 >= 4

\* strcmp: the comparison ends at the first difference d or at the terminator,
\* whatever the offset n
CmpEnd(a, d, n) == d # 0 \/ a = NUL

\* strcmp(ext, Literal(k)): one byte pair
CmpStep ==
    /\ pc = "strcmp"
    /\ LET a == mem[ext + j]
           b == Literal(k)[j + 1]
           d == ByteDiff(a, b)
       IN  /\ hi' = Max(hi, ext + j)
           /\ reads' = reads + 1
           /\ IF CmpEnd(a, d, j)
              THEN /\ cmp' = d
                   /\ pc' = "cond"
                   /\ j' = j
              ELSE /\ j' = j + 1
                   /\ UNCHANGED <<cmp, pc>>
    /\ UNCHANGED <<filename, mem, p, last, ext, k, ret, memo>>

\* a strcmp(...) == 0 of the chain is true: return 1
ReturnTrue ==
    /\ pc = "cond"
    /\ cmp = 0
    /\ ret' = 1
    /\ pc' = "done"
    /\ UNCHANGED <<filename, mem, p, last, ext, k, j, cmp, hi, reads, memo>>

\* it is false and another operand of || follows: the next strcmp starts
NextOperand ==
    /\ pc = "cond"
    /\ cmp # 0
    /\ k < NumExts
    /\ k' = k + 1 /\ j' = 0
    /\ pc' = "strcmp"
    /\ UNCHANGED <<filename, mem, p, last, ext, cmp, ret, hi, reads, memo>>

\* a variant of ReturnFalse: the value of the last strcmp is returned
ReturnFalseCmp ==
    /\ pc = "cond"
    /\ cmp # 0
    /\ k = NumExts
    /\ ret' = cmp
    /\ pc' = "done"
    /\ UNCHANGED <<filename, mem, p, last, ext, k, j, cmp, hi, reads, memo>>

\* the last operand is false: return 0
ReturnFalse ==
    /\ pc = "cond"
    /\ cmp # 0
    /\ k = NumExts
    /\ ret' = 0
    /\ pc' = "done"
    /\ UNCHANGED <<filename, mem, p, last, ext, k, j, cmp, hi, reads, memo>>

\* the call has returned: its frame is gone and the caller's buffer is no longer
\* the function's concern; the returned value stays in the return register
Return ==
    /\ pc = "done"
    /\ pc' = "idle"
    /\ filename' = <<>>
    /\ mem' = CString(<<>>)
    /\ p' = 0 /\ last' = 0 /\ ext' = 0 /\ k' = 0 /\ j' = 0 /\ cmp' = 0
    /\ hi' = 0 /\ reads' = 0
    /\ UNCHANGED <<ret, memo>>

\* the steps of a call in progress
Step ==
    \/ ScanStep
    \/ NoExt
    \/ HasExt
    \/ CmpStep
    \/ ReturnTrue
    \/ NextOperand
    \/ ReturnFalse

\* the caller keeps the result of the call that has just returned
Remember ==
    /\ pc = "done"
    /\ memo' = [name |-> filename, ret |-> ret]
    /\ UNCHANGED <<filename, mem, pc, p, last, ext, k, j, cmp, ret, hi, reads>>

Next ==
    \/ Call(Names)
    \/ Step
    \/ Return

Spec == Init /\ [][Next]_vars

NextCalls ==
    \/ Call(ProbeNames)
    \/ Step
    \/ Remember
    \/ Return

SpecCalls == Init /\ [][NextCalls]_vars

----------------------------------------------------------------------------
(* The filename as the specification reads it *)

HasDot(f) == \E i \in 1..Len(f) : f[i] = Dot

\* position of the last '.' of a filename that has one
LastDot(f) == CHOOSE i \in 1..Len(f) : f[i] = Dot /\ \A n \in (i + 1)..Len(f) : f[n] # Dot

\* the substring from the last '.' to the end; empty when there is no '.'
Extension(f) == IF HasDot(f) THEN SubSeq(f, LastDot(f), Len(f)) ELSE <<>>

IsMedia(f) == HasDot(f) /\ Extension(f) \in MediaExts

LowerCase(s) == [i \in 1..Len(s) |-> Lower(s[i])]

EndsWith(f, s) == Len(f) >= Len(s) /\ SubSeq(f, Len(f) - Len(s) + 1, Len(f)) = s

\* index of the terminator of the string at mem (index 1)
Terminator == Len(filename) + 1

\* a call is between its entry and its return
Running == pc \in {"strrchr", "test", "strcmp", "cond"}

Returned == pc = "done"

----------------------------------------------------------------------------
(* The claims *)

\* C1: a call returns 1 if and only if the filename has a '.' and the substring
\* from its last '.' to its end is one of ".jpg", ".png", ".mp4", ".avi", ".mp3";
\* in every other case it returns 0.
C1_ExactAllowList ==
    Returned => /\ (ret = 1) <=> IsMedia(filename)
                /\ (ret = 0) <=> ~IsMedia(filename)

C1_Witness ==
    /\ Returned /\ ret = 1
    /\ Len(filename) > 4
    /\ Extension(filename) = <<".", "p", "n", "g">>

\* C2: for a filename without a '.', the empty one included, the call returns 0
\* (no error value) through the no-extension branch: ext is NULL and no
\* comparison of the chain has been started.
C2_NoDotIsFalse ==
    (Returned /\ ~HasDot(filename)) => (ret = 0 /\ ext = 0 /\ k = 0)

C2_Witness ==
    /\ Returned /\ filename = <<>> /\ ret = 0 /\ k = 0

\* C3: a filename whose last four characters are an allow-listed extension
\* yields 1, whatever precedes them, nothing included.
C3_ListedSuffixIsTrue ==
    (Returned /\ \E e \in MediaExts : EndsWith(filename, e)) => ret = 1

C3_Witness ==
    /\ Returned /\ filename = <<".", "m", "p", "3">> /\ ret = 1

\* C4: an extension that equals an allow-listed one only when letter case is
\* ignored yields 0.
C4_CaseSensitive ==
    (/\ Returned
     /\ HasDot(filename)
     /\ Extension(filename) \notin MediaExts
     /\ LowerCase(Extension(filename)) \in MediaExts) => ret = 0

C4_Witness ==
    /\ Returned /\ ret = 0
    /\ Len(filename) > 4
    /\ Extension(filename) = <<".", "P", "N", "G">>

\* C5: the result depends only on the substring from the last '.': a call with
\* p \o f, f containing a '.', returns what the call with f returned; and an
\* allow-listed extension in front of the last '.' does not make the result 1.
C5_LastDotDecides ==
    /\ (/\ Returned
        /\ memo # NoMemo
        /\ HasDot(memo.name)
        /\ EndsWith(filename, memo.name)) => ret = memo.ret
    /\ (/\ Returned
        /\ HasDot(filename)
        /\ Extension(filename) \notin MediaExts
        /\ \E e \in MediaExts : \E i \in 1..(LastDot(filename) - Len(e)) :
              SubSeq(filename, i, i + Len(e) - 1) = e) => ret = 0

C5_Witness ==
    /\ Returned /\ ret = 1
    /\ memo = [name |-> <<".", "m", "p", "3">>, ret |-> 1]
    /\ filename = <<"a", ".">> \o memo.name

\* C6: a filename with a '.' whose extension is not allow-listed yields 0:
\* prefixes of a listed extension, listed extensions with more characters, a
\* trailing '.' after a listed extension.
C6_UnlistedIsFalse ==
    (Returned /\ HasDot(filename) /\ Extension(filename) \notin MediaExts) => ret = 0

C6_Witness ==
    /\ Returned /\ ret = 0
    /\ EndsWith(filename, <<".", "j", "p", "g", ".">>)

\* C7: a call is pure: no step of it changes the filename's bytes or the
\* caller's state, and a call with the contents of an earlier call returns what
\* that call returned, whatever calls were made in between.
C7_Pure ==
    /\ [](Running \/ Returned => mem = CString(filename))
    /\ []((Returned /\ memo # NoMemo /\ memo.name = filename) => ret = memo.ret)
    /\ [][Step => (mem' = mem /\ filename' = filename /\ memo' = memo)]_vars

C7_Witness ==
    /\ Returned /\ ret = 1
    /\ memo = [name |-> filename, ret |-> 1]
    /\ Len(filename) > 4

\* C8: no awareness of path separators: with a '/' after the last '.', the call
\* returns 0, and it does so after comparing the pseudo-extension that starts at
\* that '.' with all the literals, not through the no-extension branch.
C8_NoPathAwareness ==
    (/\ Returned
     /\ HasDot(filename)
     /\ \E i \in (LastDot(filename) + 1)..Len(filename) : filename[i] = "/")
    => (ret = 0 /\ ext = LastDot(filename) /\ k = NumExts)

C8_Witness ==
    /\ Returned /\ ret = 0
    /\ filename = <<"a", ".", "j", "p", "g", "/", "a">>
    /\ ext = 2

\* C9: the returned integer is exactly 0 or exactly 1.
C9_ZeroOrOne == Returned => ret \in {0, 1}

C9_Witness ==
    /\ Returned /\ ret = 0 /\ cmp # 0 /\ k = NumExts

\* C10: a call terminates and never reads past the terminator: no read is behind
\* the terminator, a call in progress always has a next step, and the number of
\* bytes it reads is bounded by one scan of the string and five comparisons of
\* at most the bytes of a literal each.
C10_TerminatesInBounds ==
    /\ hi <= Terminator
    /\ Running => ENABLED Step
    /\ reads <= Terminator + NumExts * LiteralSize
    /\ Returned => hi = Terminator

C10_Witness ==
    /\ Returned
    /\ Len(filename) > 4
    /\ hi = Terminator
    /\ reads > Terminator + NumExts
    /\ k = NumExts

====
